---------------------------- MODULE Spec2Model ----------------------------
(***************************************************************************)
(* A model of src/main.py: a WebSub (PubSubHubbub) callback that relays    *)
(* YouTube upload notifications to a Discord channel.                      *)
(*                                                                         *)
(* Everything runs on one asyncio event loop, so a step of the model is    *)
(* the code a coroutine runs between two awaits.  The coroutines are       *)
(*   on_ready           start the web server, register with the hub, then  *)
(*                      create resubscribe_loop                            *)
(*   resubscribe_loop   sleep 12 hours, register again, for ever           *)
(*   websub_get         the hub's verification handshake                   *)
(*   websub_post        one per POST: read, verify, parse, schedule        *)
(*   announce_video     one task per accepted POST: dedupe, look the       *)
(*                      channel up, send                                   *)
(*                                                                         *)
(* Text the code inspects character by character (the signature header) is *)
(* a sequence of one-character strings.  Python's None is the string None, *)
(* which no modelled text equals.                                          *)
(***************************************************************************)
EXTENDS Integers, Sequences, FiniteSets, TLC

VARIABLES
    WEBSUB_SECRET,    \* main.py:23, read once from the environment
    seen_video_ids,   \* main.py:38
    listening,        \* start_web_server has bound the port
    readyPc,          \* on_ready's position
    loopPc,           \* resubscribe_loop's position
    sleepLeft,        \* seconds left of the loop's asyncio.sleep
    lastReg,          \* fate of the most recent registration request
    hubPosted,        \* the form data of every request sent to the hub
    posts,            \* the websub_post handlers, by arrival number
    tasks,            \* the announce_video task each handler created
    announcements,    \* messages the Discord channel accepted, in order
    lastGet           \* the most recent websub_get: its hub.challenge and response

vars == <<WEBSUB_SECRET, seen_video_ids, listening, readyPc, loopPc, sleepLeft,
          lastReg, hubPosted, posts, tasks, announcements, lastGet>>

subVars == <<readyPc, loopPc, sleepLeft, lastReg, hubPosted>>
webVars == <<seen_video_ids, posts, tasks, announcements, lastGet>>

-----------------------------------------------------------------------------
(* Bounds of the model *)

\* POST requests in one behaviour of the whole program
MaxPosts == 1

\* POST requests in one behaviour of the POST path alone
MaxDispatchPosts == 2

\* seconds of sleep that pass in one step of the clock
TickSeconds == 21600

-----------------------------------------------------------------------------
(* Python values *)

None == "None"

Max(a, b) == IF a > b THEN a ELSE b

\* "sha1=" as characters
Sha1Prefix == <<"s", "h", "a", "1", "=">>

\* characters str.strip() removes
Whitespace == {" ", "\t"}

\* characters outside ASCII
NonAscii == {"é"}

-----------------------------------------------------------------------------
(* The request bodies.  A body is a number; Docs gives what                 *)
(* xml.etree.ElementTree makes of its text.  wf: the text is well-formed    *)
(* XML; entry: the root has an atom:entry child; videoId, title: NoEl when  *)
(* the first entry has no such child, else the child's .text (None for an   *)
(* empty element); link: NoEl, NoAttr for a link element without href,      *)
(* else the href.                                                           *)

NoEl == "<no element>"
NoAttr == "<no href>"

Doc(wf, entry, videoId, title, link) ==
    [wf |-> wf, entry |-> entry, videoId |-> videoId, title |-> title, link |-> link]

Docs == <<
    Doc(TRUE, TRUE, "v1", "Hello", "https://example.com/v1"),
    Doc(TRUE, TRUE, "v2", NoEl, NoEl),
    Doc(FALSE, FALSE, NoEl, NoEl, NoEl),
    Doc(TRUE, FALSE, NoEl, NoEl, NoEl),
    Doc(TRUE, TRUE, "v1", "Hello again", NoAttr)
>>

Bodies == 1..Len(Docs)

\* Every shape of document the parser tells apart: body Len(Docs) + 1 + n
\* is the document whose fields are the digits of n.
FeedShapes == <<"malformed", "no entry", "entry">>
VideoIdTexts == <<NoEl, None, "v1", "v2">>
TitleTexts == <<NoEl, None, "Hello">>
LinkTexts == <<NoEl, NoAttr, "", "https://example.com/v1">>

ShapeCount == Len(FeedShapes) * Len(VideoIdTexts) * Len(TitleTexts) * Len(LinkTexts)

ShapedDoc(n) ==
    LET shape == FeedShapes[(n % Len(FeedShapes)) + 1]
        n1 == n \div Len(FeedShapes)
        videoId == VideoIdTexts[(n1 % Len(VideoIdTexts)) + 1]
        n2 == n1 \div Len(VideoIdTexts)
        title == TitleTexts[(n2 % Len(TitleTexts)) + 1]
        n3 == n2 \div Len(TitleTexts)
        link == LinkTexts[(n3 % Len(LinkTexts)) + 1]
    IN  Doc(shape # "malformed", shape = "entry", videoId, title, link)

ShapedBodies == (Len(Docs) + 1)..(Len(Docs) + ShapeCount)

DocOf(raw) == IF raw \in Bodies THEN Docs[raw] ELSE ShapedDoc(raw - Len(Docs) - 1)

-----------------------------------------------------------------------------
(* _verify_signature, main.py:41-55 *)

\* hmac.new(key, msg, sha1).hexdigest(): two lowercase hex digits stand for
\* the forty of SHA-1; the digest depends on the key and on the body.
HexDigits == <<"0", "1", "2", "3", "4", "5", "6", "7", "8", "9",
               "a", "b", "c", "d", "e", "f">>

KeyNumber(key) == IF key = "" THEN 0 ELSE 1

hexdigest(key, msg) ==
    LET d == (37 * msg + 101 * KeyNumber(key) + 11) % 256
    IN  <<HexDigits[(d \div 16) + 1], HexDigits[(d % 16) + 1]>>

\* str.startswith
startswith(s, prefix) ==
    /\ Len(s) >= Len(prefix)
    /\ SubSeq(s, 1, Len(prefix)) = prefix

\* s.split("=", 1)[1], for an s that holds an "="
AfterFirstEquals(s) ==
    LET i == CHOOSE k \in 1..Len(s) :
                 /\ s[k] = "="
                 /\ \A j \in 1..(k - 1) : s[j] # "="
    IN  SubSeq(s, i + 1, Len(s))

\* str.strip()
strip(s) ==
    LET keep == {k \in 1..Len(s) : s[k] \notin Whitespace}
    IN  IF keep = {} THEN <<>>
        ELSE SubSeq(s, CHOOSE k \in keep : \A j \in keep : k <= j,
                       CHOOSE k \in keep : \A j \in keep : k >= j)

\* compare_digest comparing only as many characters as b has
compare_digest_prefix(a, b) ==
    IF \E k \in 1..Len(a) : a[k] \in NonAscii THEN "TypeError"
    ELSE IF \E k \in 1..Len(b) : b[k] \in NonAscii THEN "TypeError"
    ELSE IF Len(b) > 0 /\ Len(b) <= Len(a) /\ SubSeq(a, 1, Len(b)) = b
         THEN "True" ELSE "False"

\* hmac.compare_digest on two str: TypeError unless both are ASCII
compare_digest(a, b) ==
    IF \E k \in 1..Len(a) : a[k] \in NonAscii THEN "TypeError"
    ELSE IF \E k \in 1..Len(b) : b[k] \in NonAscii THEN "TypeError"
    ELSE IF a = b THEN "True" ELSE "False"

\* _verify_signature without the early return for an empty secret
VerifyWith_always_checks(secret, raw_body, signature_header) ==
    IF signature_header = <<>> \/ ~startswith(signature_header, Sha1Prefix)
    THEN "False"
    ELSE LET their_sig == strip(AfterFirstEquals(signature_header))
             our_sig == hexdigest(secret, raw_body)
         IN  compare_digest(our_sig, their_sig)

\* The result is "True", "False", or "TypeError" when the call raises.
VerifyWith(secret, raw_body, signature_header) ==
    IF secret = "" THEN "True"
    ELSE IF signature_header = <<>> \/ ~startswith(signature_header, Sha1Prefix)
         THEN "False"
    ELSE LET their_sig == strip(AfterFirstEquals(signature_header))
             our_sig == hexdigest(secret, raw_body)
         IN  compare_digest(our_sig, their_sig)

_verify_signature(raw_body, signature_header) ==
    VerifyWith(WEBSUB_SECRET, raw_body, signature_header)

-----------------------------------------------------------------------------
(* parse_atom_for_video, main.py:78-109 *)

\* The result: kind "ParseError" when ET.fromstring raises, "None" when the
\* function returns None, "entry" with the tuple's three fields otherwise.
Parsed(kind, video_id, title, link) ==
    [kind |-> kind, video_id |-> video_id, title |-> title, link |-> link]

\* "not x" for an x that is None or a str
Falsy(x) == x = None \/ x = ""

WatchUrl(video_id) == "https://www.youtube.com/watch?v=" \o video_id

\* parse_atom_for_video without the test of main.py:106-107
ParseDoc_keeps_entry_without_id(doc) ==
    IF ~doc.wf THEN Parsed("ParseError", None, None, None)
    ELSE IF ~doc.entry THEN Parsed("None", None, None, None)
    ELSE LET video_id == IF doc.videoId # NoEl THEN doc.videoId ELSE None
             title == IF doc.title # NoEl THEN doc.title ELSE "(no title)"
             link0 == IF doc.link # NoEl /\ doc.link # NoAttr THEN doc.link ELSE None
             link == IF Falsy(link0) /\ ~Falsy(video_id) THEN WatchUrl(video_id) ELSE link0
         IN  Parsed("entry", video_id, title, link)

\* parse_atom_for_video taking the first link element's href or nothing
ParseDoc_never_synthesizes(doc) ==
    IF ~doc.wf THEN Parsed("ParseError", None, None, None)
    ELSE IF ~doc.entry THEN Parsed("None", None, None, None)
    ELSE LET video_id == IF doc.videoId # NoEl THEN doc.videoId ELSE None
             title == IF doc.title # NoEl THEN doc.title ELSE "(no title)"
             link == IF doc.link # NoEl /\ doc.link # NoAttr THEN doc.link ELSE None
         IN  IF Falsy(video_id) THEN Parsed("None", None, None, None)
             ELSE Parsed("entry", video_id, title, link)

ParseDoc(doc) ==
    IF ~doc.wf THEN Parsed("ParseError", None, None, None)
    ELSE IF ~doc.entry THEN Parsed("None", None, None, None)
    ELSE LET video_id == IF doc.videoId # NoEl THEN doc.videoId ELSE None
             title == IF doc.title # NoEl THEN doc.title ELSE "(no title)"
             link0 == IF doc.link # NoEl /\ doc.link # NoAttr THEN doc.link ELSE None
             link == IF Falsy(link0) /\ ~Falsy(video_id) THEN WatchUrl(video_id) ELSE link0
         IN  IF Falsy(video_id) THEN Parsed("None", None, None, None)
             ELSE Parsed("entry", video_id, title, link)

parse_atom_for_video(raw) == ParseDoc(DocOf(raw))

-----------------------------------------------------------------------------
(* Inputs of the state machine *)

Secrets == {"", "s3cret"}

\* what the hub sends when it signs with the secret it was given
SignedHeader(secret, raw) == Sha1Prefix \o hexdigest(secret, raw)

\* a well-formed header with another digest
ForgedHeader == Sha1Prefix \o <<"z", "z">>

\* a header whose digest text is not ASCII
NonAsciiHeader == Sha1Prefix \o <<"é">>

\* the X-Hub-Signature values a POST of body raw may carry; <<>> is the
\* default of request.headers.get when the header is missing
SigChoices(raw) ==
    {<<>>, SignedHeader("s3cret", raw), ForgedHeader, NonAsciiHeader}

\* hub.challenge of a GET: None when the parameter is missing
Challenges == {None, "", "xyz789"}

\* the status codes and failures of a request to the hub
Unreachable == 0 - 1
HubOutcomes == {200, 202, 204, 403, 500, Unreachable}

RESUBSCRIBE_SECONDS == 60 * 60 * 12

PostIds == 1..Max(MaxPosts, MaxDispatchPosts)

IdlePost == [pc |-> "idle", raw |-> 0, sig |-> <<>>, status |-> 0]
NoTask == [pc |-> "none", video_id |-> None, title |-> None, link |-> None]

TypeOK ==
    /\ WEBSUB_SECRET \in Secrets
    /\ seen_video_ids \subseteq {"v1", "v2"}
    /\ listening \in BOOLEAN
    /\ readyPc \in {"start", "started", "subscribing", "done", "raised"}
    /\ loopPc \in {"none", "sleeping", "subscribing"}
    /\ sleepLeft \in 0..RESUBSCRIBE_SECONDS
    /\ lastReg \in {"none", "inflight", "ok", "failed"}
    /\ DOMAIN posts = PostIds
    /\ DOMAIN tasks = PostIds
    /\ \A r \in PostIds :
        /\ posts[r].pc \in {"idle", "reading", "responded", "read_raised",
                            "verify_raised"}
        /\ posts[r].status \in {0, 204, 403, 500}
        /\ tasks[r].pc \in {"none", "scheduled", "returned", "fetching",
                            "sending", "sent", "failed"}
    /\ Len(announcements) <= Cardinality(PostIds)

Init ==
    /\ WEBSUB_SECRET \in Secrets
    /\ seen_video_ids = {}
    /\ listening = FALSE
    /\ readyPc = "start"
    /\ loopPc = "none"
    /\ sleepLeft = 0
    /\ lastReg = "none"
    /\ hubPosted = {}
    /\ posts = [r \in PostIds |-> IdlePost]
    /\ tasks = [r \in PostIds |-> NoTask]
    /\ announcements = <<>>
    /\ lastGet = [challenge |-> None, status |-> 0, text |-> None]

-----------------------------------------------------------------------------
(* subscribe_websub, main.py:58-75 *)

\* the form data without main.py:68-69
SubscribeData_never_signed ==
    {<<"hub.mode", "subscribe">>,
     <<"hub.topic", "TOPIC_URL">>,
     <<"hub.callback", "CALLBACK_URL">>,
     <<"hub.verify", "async">>}

\* the form data, as the set of its fields
SubscribeData ==
    {<<"hub.mode", "subscribe">>,
     <<"hub.topic", "TOPIC_URL">>,
     <<"hub.callback", "CALLBACK_URL">>,
     <<"hub.verify", "async">>}
    \cup (IF WEBSUB_SECRET # "" THEN {<<"hub.secret", WEBSUB_SECRET>>} ELSE {})

\* session.post(HUB_URL, data=data) goes out
subscribe_websub_send ==
    /\ hubPosted' = hubPosted \cup {SubscribeData}
    /\ lastReg' = "inflight"

\* the call returns when the hub answered 200, 202 or 204; every other
\* status raises RuntimeError, and no answer raises a client error
subscribe_websub_ok(outcome) == outcome \in {202, 204, 200}

-----------------------------------------------------------------------------
(* on_ready, main.py:174-195, and start_web_server, main.py:160-169 *)

start_web_server ==
    /\ readyPc = "start"
    /\ readyPc' = "started"
    /\ listening' = TRUE
    /\ UNCHANGED <<WEBSUB_SECRET, loopPc, sleepLeft, lastReg, hubPosted>>
    /\ UNCHANGED webVars

\* on_ready registering with the hub before it starts the web server
on_ready_subscribe_before_server ==
    /\ readyPc = "start"
    /\ readyPc' = "subscribing"
    /\ subscribe_websub_send
    /\ UNCHANGED <<WEBSUB_SECRET, listening, loopPc, sleepLeft>>
    /\ UNCHANGED webVars

\* main.py:182-183, up to the await of the hub's response
on_ready_subscribe ==
    /\ readyPc = "started"
    /\ readyPc' = "subscribing"
    /\ subscribe_websub_send
    /\ UNCHANGED <<WEBSUB_SECRET, listening, loopPc, sleepLeft>>
    /\ UNCHANGED webVars

\* on_ready_subscribed taking the web server down with it when the
\* registration fails
on_ready_subscribed_stops_server(outcome) ==
    /\ readyPc = "subscribing"
    /\ IF subscribe_websub_ok(outcome)
       THEN /\ lastReg' = "ok"
            /\ readyPc' = "done"
            /\ loopPc' = "sleeping"
            /\ sleepLeft' = RESUBSCRIBE_SECONDS
            /\ UNCHANGED listening
       ELSE /\ lastReg' = "failed"
            /\ readyPc' = "raised"
            /\ listening' = FALSE
            /\ UNCHANGED <<loopPc, sleepLeft>>
    /\ UNCHANGED <<WEBSUB_SECRET, hubPosted>>
    /\ UNCHANGED webVars

\* main.py:183-195: the initial registration is not inside a try, so its
\* failure leaves on_ready before resubscribe_loop is created
on_ready_subscribed(outcome) ==
    /\ readyPc = "subscribing"
    /\ IF subscribe_websub_ok(outcome)
       THEN /\ lastReg' = "ok"
            /\ readyPc' = "done"
            /\ loopPc' = "sleeping"
            /\ sleepLeft' = RESUBSCRIBE_SECONDS
       ELSE /\ lastReg' = "failed"
            /\ readyPc' = "raised"
            /\ UNCHANGED <<loopPc, sleepLeft>>
    /\ UNCHANGED <<WEBSUB_SECRET, listening, hubPosted>>
    /\ UNCHANGED webVars

-----------------------------------------------------------------------------
(* resubscribe_loop, main.py:185-193 *)

\* time passes while the loop is in asyncio.sleep
Tick ==
    /\ loopPc = "sleeping"
    /\ sleepLeft > 0
    /\ sleepLeft' = Max(0, sleepLeft - TickSeconds)
    /\ UNCHANGED <<WEBSUB_SECRET, listening, readyPc, loopPc, lastReg, hubPosted>>
    /\ UNCHANGED webVars

\* main.py:188-191: the sleep is over, the renewal request goes out
resubscribe_loop_wake ==
    /\ loopPc = "sleeping"
    /\ sleepLeft = 0
    /\ loopPc' = "subscribing"
    /\ subscribe_websub_send
    /\ UNCHANGED <<WEBSUB_SECRET, listening, readyPc, sleepLeft>>
    /\ UNCHANGED webVars

\* resubscribe_loop without its try: a failed renewal ends the loop
resubscribe_loop_done_uncaught(outcome) ==
    /\ loopPc = "subscribing"
    /\ lastReg' = IF subscribe_websub_ok(outcome) THEN "ok" ELSE "failed"
    /\ loopPc' = IF subscribe_websub_ok(outcome) THEN "sleeping" ELSE "none"
    /\ sleepLeft' = IF subscribe_websub_ok(outcome) THEN RESUBSCRIBE_SECONDS ELSE 0
    /\ UNCHANGED <<WEBSUB_SECRET, listening, readyPc, hubPosted>>
    /\ UNCHANGED webVars

\* resubscribe_loop trying again at once after a failed renewal
resubscribe_loop_done_retries_early(outcome) ==
    /\ loopPc = "subscribing"
    /\ lastReg' = IF subscribe_websub_ok(outcome) THEN "ok" ELSE "failed"
    /\ loopPc' = "sleeping"
    /\ sleepLeft' = IF subscribe_websub_ok(outcome) THEN RESUBSCRIBE_SECONDS ELSE 0
    /\ UNCHANGED <<WEBSUB_SECRET, listening, readyPc, hubPosted>>
    /\ UNCHANGED webVars

\* main.py:189-193, then 187-188: whatever the attempt's fate, the
\* exception is caught and the loop sleeps again
resubscribe_loop_done(outcome) ==
    /\ loopPc = "subscribing"
    /\ lastReg' = IF subscribe_websub_ok(outcome) THEN "ok" ELSE "failed"
    /\ loopPc' = "sleeping"
    /\ sleepLeft' = RESUBSCRIBE_SECONDS
    /\ UNCHANGED <<WEBSUB_SECRET, listening, readyPc, hubPosted>>
    /\ UNCHANGED webVars

-----------------------------------------------------------------------------
(* websub_get, main.py:130-135 *)

\* websub_get answering "ok" whatever the query holds
websub_get_ignores_challenge(challenge) ==
    /\ listening
    /\ lastGet' = [challenge |-> challenge, status |-> 200, text |-> "ok"]
    /\ UNCHANGED <<WEBSUB_SECRET, listening, seen_video_ids, posts, tasks, announcements>>
    /\ UNCHANGED subVars

\* challenge is request.query.get("hub.challenge"): None when the query has
\* no such parameter
websub_get(challenge) ==
    /\ listening
    /\ lastGet' = [challenge |-> challenge,
                   status |-> 200,
                   text |-> IF ~Falsy(challenge) THEN challenge ELSE "ok"]
    /\ UNCHANGED <<WEBSUB_SECRET, listening, seen_video_ids, posts, tasks, announcements>>
    /\ UNCHANGED subVars

-----------------------------------------------------------------------------
(* websub_post, main.py:138-157 *)

\* a request arrives and its handler starts awaiting request.read()
websub_post_arrive(r, raw, sig) ==
    /\ listening
    /\ posts[r].pc = "idle"
    /\ \A q \in PostIds : q < r => posts[q].pc # "idle"
    /\ posts' = [posts EXCEPT ![r] = [pc |-> "reading", raw |-> raw, sig |-> sig,
                                      status |-> 0]]
    /\ UNCHANGED <<WEBSUB_SECRET, listening, seen_video_ids, tasks, announcements, lastGet>>
    /\ UNCHANGED subVars

\* main.py:139: request.read() raises (the client went away, the body is
\* over the size limit); the await is outside the try, so the exception
\* leaves the handler
websub_post_read_raises(r) ==
    /\ posts[r].pc = "reading"
    /\ posts' = [posts EXCEPT ![r].pc = "read_raised"]
    /\ UNCHANGED <<WEBSUB_SECRET, listening, seen_video_ids, tasks, announcements, lastGet>>
    /\ UNCHANGED subVars

\* main.py:140-157, run without an await once the body is read: the
\* handler's end (responded with a status, or verify_raised when the
\* exception of _verify_signature, called outside the try, leaves it) and
\* the task it creates
HandlerResult(raw, sig) ==
    LET verified == _verify_signature(raw, sig)
        parsed == parse_atom_for_video(raw)
    IN  IF verified = "TypeError"
        THEN [pc |-> "verify_raised", status |-> 0, task |-> NoTask]
        ELSE IF verified = "False"
        THEN [pc |-> "responded", status |-> 403, task |-> NoTask]
        ELSE IF parsed.kind = "ParseError"
        THEN [pc |-> "responded", status |-> 500, task |-> NoTask]
        ELSE IF parsed.kind = "None"
        THEN [pc |-> "responded", status |-> 204, task |-> NoTask]
        ELSE [pc |-> "responded", status |-> 204,
              task |-> [pc |-> "scheduled", video_id |-> parsed.video_id,
                        title |-> parsed.title, link |-> parsed.link]]

\* websub_post on a server that a blocking call to the hub holds up
websub_post_blocked(r) ==
    /\ loopPc # "subscribing"
    /\ posts[r].pc = "reading"
    /\ LET res == HandlerResult(posts[r].raw, posts[r].sig)
       IN  /\ posts' = [posts EXCEPT ![r].pc = res.pc, ![r].status = res.status]
           /\ tasks' = [tasks EXCEPT ![r] = res.task]
    /\ UNCHANGED <<WEBSUB_SECRET, listening, seen_video_ids, announcements, lastGet>>
    /\ UNCHANGED subVars

\* websub_post awaiting the task it created before it answers
websub_post_awaits(r) ==
    /\ posts[r].pc = "reading"
    /\ LET res == HandlerResult(posts[r].raw, posts[r].sig)
       IN  /\ posts' = IF res.task.pc = "none"
                       THEN [posts EXCEPT ![r].pc = res.pc, ![r].status = res.status]
                       ELSE posts
           /\ tasks' = [tasks EXCEPT ![r] = res.task]
    /\ UNCHANGED <<WEBSUB_SECRET, listening, seen_video_ids, announcements, lastGet>>
    /\ UNCHANGED subVars

\* websub_post recording the id itself, before the task runs
websub_post_records(r) ==
    /\ posts[r].pc = "reading"
    /\ LET res == HandlerResult(posts[r].raw, posts[r].sig)
       IN  /\ posts' = [posts EXCEPT ![r].pc = res.pc, ![r].status = res.status]
           /\ tasks' = [tasks EXCEPT ![r] = res.task]
           /\ seen_video_ids' = IF res.task.pc = "none" THEN seen_video_ids
                                ELSE seen_video_ids \cup {res.task.video_id}
    /\ UNCHANGED <<WEBSUB_SECRET, listening, announcements, lastGet>>
    /\ UNCHANGED subVars

websub_post(r) ==
    /\ posts[r].pc = "reading"
    /\ LET res == HandlerResult(posts[r].raw, posts[r].sig)
       IN  /\ posts' = [posts EXCEPT ![r].pc = res.pc, ![r].status = res.status]
           /\ tasks' = [tasks EXCEPT ![r] = res.task]
    /\ UNCHANGED <<WEBSUB_SECRET, listening, seen_video_ids, announcements, lastGet>>
    /\ UNCHANGED subVars

-----------------------------------------------------------------------------
(* announce_video, main.py:112-125 *)

\* the message of main.py:125 without its second line
Message_without_link(title, link) == "[loudspeaker] **New upload:** " \o title

\* main.py:125; U+1F4E2, the loudspeaker the message starts with, is
\* written [loudspeaker]
Message(title, link) == "[loudspeaker] **New upload:** " \o title \o "\n" \o link

\* announce_video with the record moved behind the await of fetch_channel
\* (and so never made on that path)
announce_video_record_late(r, cached) ==
    /\ tasks[r].pc = "scheduled"
    /\ IF tasks[r].video_id \in seen_video_ids
       THEN /\ tasks' = [tasks EXCEPT ![r].pc = "returned"]
            /\ UNCHANGED seen_video_ids
       ELSE /\ seen_video_ids' = IF cached
                                 THEN seen_video_ids \cup {tasks[r].video_id}
                                 ELSE seen_video_ids
            /\ tasks' = [tasks EXCEPT ![r].pc = IF cached THEN "sending" ELSE "fetching"]
    /\ UNCHANGED <<WEBSUB_SECRET, listening, posts, announcements, lastGet>>
    /\ UNCHANGED subVars

\* main.py:116-123, run without an await: the duplicate check, the record,
\* and the cache lookup; cached says whether bot.get_channel found the
\* channel
announce_video(r, cached) ==
    /\ tasks[r].pc = "scheduled"
    /\ IF tasks[r].video_id \in seen_video_ids
       THEN /\ tasks' = [tasks EXCEPT ![r].pc = "returned"]
            /\ UNCHANGED seen_video_ids
       ELSE /\ seen_video_ids' = seen_video_ids \cup {tasks[r].video_id}
            /\ tasks' = [tasks EXCEPT ![r].pc = IF cached THEN "sending" ELSE "fetching"]
    /\ UNCHANGED <<WEBSUB_SECRET, listening, posts, announcements, lastGet>>
    /\ UNCHANGED subVars

\* main.py:123: bot.fetch_channel returns the channel or raises
announce_video_fetched(r, ok) ==
    /\ tasks[r].pc = "fetching"
    /\ tasks' = [tasks EXCEPT ![r].pc = IF ok THEN "sending" ELSE "failed"]
    /\ UNCHANGED <<WEBSUB_SECRET, listening, seen_video_ids, posts, announcements, lastGet>>
    /\ UNCHANGED subVars

\* announce_video_sent giving the id back when the send fails
announce_video_sent_unclaims(r, ok) ==
    /\ tasks[r].pc = "sending"
    /\ IF ok
       THEN /\ announcements' = Append(announcements,
                   [video_id |-> tasks[r].video_id,
                    text |-> Message(tasks[r].title, tasks[r].link)])
            /\ tasks' = [tasks EXCEPT ![r].pc = "sent"]
            /\ UNCHANGED seen_video_ids
       ELSE /\ tasks' = [tasks EXCEPT ![r].pc = "failed"]
            /\ seen_video_ids' = seen_video_ids \ {tasks[r].video_id}
            /\ UNCHANGED announcements
    /\ UNCHANGED <<WEBSUB_SECRET, listening, posts, lastGet>>
    /\ UNCHANGED subVars

\* main.py:125: channel.send delivers the message or raises
announce_video_sent(r, ok) ==
    /\ tasks[r].pc = "sending"
    /\ IF ok
       THEN /\ announcements' = Append(announcements,
                   [video_id |-> tasks[r].video_id,
                    text |-> Message(tasks[r].title, tasks[r].link)])
            /\ tasks' = [tasks EXCEPT ![r].pc = "sent"]
       ELSE /\ tasks' = [tasks EXCEPT ![r].pc = "failed"]
            /\ UNCHANGED announcements
    /\ UNCHANGED <<WEBSUB_SECRET, listening, seen_video_ids, posts, lastGet>>
    /\ UNCHANGED subVars

-----------------------------------------------------------------------------
(* The program *)

\* on_ready and resubscribe_loop
SubscriptionNext ==
    \/ start_web_server
    \/ on_ready_subscribe
    \/ \E outcome \in HubOutcomes : on_ready_subscribed(outcome)
    \/ Tick
    \/ resubscribe_loop_wake
    \/ \E outcome \in HubOutcomes : resubscribe_loop_done(outcome)

\* the POST handlers and their tasks, with at most n POSTs
DispatchNext(n) ==
    \/ \E r \in 1..n, raw \in Bodies : \E sig \in SigChoices(raw) :
           websub_post_arrive(r, raw, sig)
    \/ \E r \in PostIds : websub_post_read_raises(r)
    \/ \E r \in PostIds : websub_post(r)
    \/ \E r \in PostIds, cached \in BOOLEAN : announce_video(r, cached)
    \/ \E r \in PostIds, ok \in BOOLEAN : announce_video_fetched(r, ok)
    \/ \E r \in PostIds, ok \in BOOLEAN : announce_video_sent(r, ok)

Next ==
    \/ SubscriptionNext
    \/ \E challenge \in Challenges : websub_get(challenge)
    \/ DispatchNext(MaxPosts)

\* the whole program
Spec == Init /\ [][Next]_vars

\* The event loop runs every coroutine that can run, time passes, and a
\* request to the hub ends: with a response, or with the client's timeout.
Fairness ==
    /\ WF_vars(start_web_server)
    /\ WF_vars(on_ready_subscribe)
    /\ WF_vars(\E outcome \in HubOutcomes : on_ready_subscribed(outcome))
    /\ WF_vars(Tick)
    /\ WF_vars(resubscribe_loop_wake)
    /\ WF_vars(\E outcome \in HubOutcomes : resubscribe_loop_done(outcome))

FairSpec == Spec /\ Fairness

\* the webhook's POST path alone, while on_ready is still in its first
\* await after start_web_server: more POSTs, no hub traffic
DispatchOnlyNext ==
    \/ start_web_server
    \/ DispatchNext(MaxDispatchPosts)

DispatchSpec == Init /\ [][DispatchOnlyNext]_vars

-----------------------------------------------------------------------------
(* Vocabulary of the properties *)

VideoIds == {"v1", "v2"}

\* the tasks that announce_video was started for with id x
TasksFor(x) == {r \in PostIds : tasks[r].pc # "none" /\ tasks[r].video_id = x}

\* those that passed the check-and-record of main.py:116-118
Passed(x) == {r \in TasksFor(x) :
                 tasks[r].pc \in {"fetching", "sending", "sent", "failed"}}

\* those that have run their first step
Ran(x) == {r \in TasksFor(x) : tasks[r].pc # "scheduled"}

\* the announcements sent for id x
SentFor(x) == {i \in 1..Len(announcements) : announcements[i].video_id = x}

\* the handler of POST r has ended
Handled(r) == posts[r].pc \in {"responded", "read_raised", "verify_raised"}

-----------------------------------------------------------------------------
(* C1: for every video id and every interleaving of the dispatch tasks     *)
(* started for it, suspended ones included, exactly one task passes the    *)
(* check-and-record on seen_video_ids as soon as one has run, at most one  *)
(* announcement for the id is ever sent, and every other task that ran has *)
(* returned without sending.                                               *)
C1_OneClaimOneAnnouncement ==
    \A x \in VideoIds :
        /\ Cardinality(Passed(x)) <= 1
        /\ Ran(x) # {} => Cardinality(Passed(x)) = 1
        /\ Cardinality(SentFor(x)) <= 1
        /\ \A r \in Ran(x) \ Passed(x) : tasks[r].pc = "returned"
        /\ SentFor(x) # {} => \E r \in Passed(x) : tasks[r].pc = "sent"

\* two tasks for one id, the first suspended in the channel lookup or the
\* send while the second ran and returned
C1_Witness ==
    \E r1, r2 \in PostIds :
        /\ r1 # r2
        /\ tasks[r1].video_id = tasks[r2].video_id
        /\ tasks[r1].pc \in {"fetching", "sending"}
        /\ tasks[r2].pc = "returned"

-----------------------------------------------------------------------------
(* C2: with a secret configured, a POST whose body was read and whose       *)
(* signature does not verify is answered 403 with no task scheduled, no    *)
(* announcement and seen_video_ids unchanged.                              *)
C2_BadSignatureIs403 ==
    [][\A r \in PostIds :
          (/\ WEBSUB_SECRET # ""
           /\ posts[r].pc = "reading"
           /\ posts'[r].pc \in {"responded", "verify_raised"}
           /\ _verify_signature(posts[r].raw, posts[r].sig) # "True")
          => (/\ posts'[r].pc = "responded"
              /\ posts'[r].status = 403
              /\ tasks'[r].pc = "none"
              /\ UNCHANGED <<seen_video_ids, announcements>>)]_vars

-----------------------------------------------------------------------------
(* C3: the id is in seen_video_ids before the channel lookup or the send   *)
(* begins; when either fails the id stays recorded, the task is over for   *)
(* good, and no announcement for the id is ever sent, whatever POSTs       *)
(* follow.                                                                 *)
C3_Recorded ==
    \A r \in PostIds :
        /\ tasks[r].pc \in {"fetching", "sending", "sent", "failed"}
               => tasks[r].video_id \in seen_video_ids
        /\ tasks[r].pc = "failed" => SentFor(tasks[r].video_id) = {}

C3_NoRetry ==
    \A r \in PostIds :
        tasks[r].pc = "failed" => tasks'[r] = tasks[r]

C3_FailedDispatchStaysClaimed == []C3_Recorded /\ [][C3_NoRetry]_vars

\* a send failed, and a later POST of the same id was suppressed
C3_Witness ==
    \E r1, r2 \in PostIds :
        /\ r1 < r2
        /\ tasks[r1].pc = "failed"
        /\ tasks[r2].pc = "returned"
        /\ tasks[r2].video_id = tasks[r1].video_id
        /\ announcements = <<>>

-----------------------------------------------------------------------------
(* C6: the handler of a verified POST with an entry creates the task and   *)
(* answers 204 in the same step, before any step of the task; the answer   *)
(* stands whether the task is pending, sends, fails or returns as a        *)
(* duplicate.                                                              *)
C6_AnsweredAtScheduling ==
    \A r \in PostIds :
        (tasks[r].pc = "none" /\ tasks'[r].pc # "none")
        => (/\ tasks'[r].pc = "scheduled"
            /\ posts'[r].pc = "responded"
            /\ posts'[r].status = 204)

C6_AnswerStands ==
    \A r \in PostIds : Handled(r) => posts'[r] = posts[r]

C6_EntryGets204 ==
    \A r \in PostIds :
        /\ (/\ posts[r].pc = "responded"
            /\ _verify_signature(posts[r].raw, posts[r].sig) = "True"
            /\ parse_atom_for_video(posts[r].raw).kind = "entry")
           => posts[r].status = 204 /\ tasks[r].pc # "none"
        /\ tasks[r].pc # "none" => posts[r].pc = "responded" /\ posts[r].status = 204

C6_ResponseIndependentOfDispatch ==
    /\ []C6_EntryGets204
    /\ [][C6_AnsweredAtScheduling /\ C6_AnswerStands]_vars

\* answered 204 while the task has not run a step
C6_Witness ==
    \E r \in PostIds :
        /\ posts[r].status = 204
        /\ tasks[r].pc = "scheduled"

-----------------------------------------------------------------------------
(* C7: every POST is answered by the handler with 204, 403 or 500.         *)
C7_EveryPostAnswered ==
    \A r \in PostIds :
        Handled(r) => /\ posts[r].pc = "responded"
                      /\ posts[r].status \in {204, 403, 500}

-----------------------------------------------------------------------------
(* C4: a failed registration request, at startup or in a renewal, is       *)
(* always eventually followed by another registration request.             *)
C4_FailedRegistrationRetried ==
    (lastReg = "failed") ~> (lastReg = "inflight")

-----------------------------------------------------------------------------
(* C5: once resubscribe_loop runs, no outcome of a renewal ends it: it     *)
(* is never gone again, every attempt is followed by the sleep and every   *)
(* sleep by another attempt.                                               *)
C5_LoopNeverEnds ==
    /\ [][loopPc # "none" => loopPc' # "none"]_vars
    /\ (loopPc = "subscribing") ~> (loopPc = "sleeping")
    /\ (loopPc = "sleeping") ~> (loopPc = "subscribing")

\* the loop sleeps again after a renewal that failed
C5_Witness ==
    /\ loopPc = "sleeping"
    /\ lastReg = "failed"

-----------------------------------------------------------------------------
(* C8: no error stops the system.  Once the web server listens it listens  *)
(* for good; in every state it reaches, whatever failed before, a GET can  *)
(* be answered, the next POST can arrive, every POST that was read can be  *)
(* handled and every task can take its next step; and the task of a POST   *)
(* with a new id always goes on to the channel and, when the channel       *)
(* accepts the message, has its announcement sent.                         *)
C8_Serving ==
    listening =>
        /\ \A challenge \in Challenges : ENABLED websub_get(challenge)
        /\ \A r \in 1..MaxPosts :
               (posts[r].pc = "idle" /\ \A q \in 1..(r - 1) : posts[q].pc # "idle")
               => \A raw \in Bodies : \A sig \in SigChoices(raw) :
                      ENABLED websub_post_arrive(r, raw, sig)
        /\ \A r \in PostIds :
               /\ posts[r].pc = "reading" => ENABLED websub_post(r)
               /\ tasks[r].pc = "scheduled" => ENABLED announce_video(r, TRUE)
               /\ tasks[r].pc = "fetching" => ENABLED announce_video_fetched(r, TRUE)
               /\ tasks[r].pc = "sending" => ENABLED announce_video_sent(r, TRUE)

C8_Announced ==
    \A r \in PostIds :
        tasks[r].pc = "sent" =>
            \E i \in 1..Len(announcements) :
                announcements[i] = [video_id |-> tasks[r].video_id,
                                    text |-> Message(tasks[r].title, tasks[r].link)]

C8_Step ==
    /\ listening => listening'
    /\ \A r \in PostIds :
           /\ posts[r].pc # "idle" => listening
           /\ (/\ tasks[r].pc = "scheduled"
               /\ tasks'[r].pc # "scheduled"
               /\ tasks[r].video_id \notin seen_video_ids)
              => tasks'[r].pc \in {"fetching", "sending"}

-----------------------------------------------------------------------------
(* C9: the web server and the renewal loop never block each other.  While  *)
(* the loop sleeps or waits for the hub, GETs and POSTs are handled; while *)
(* a request is being read or a task waits for the channel, the loop can   *)
(* take its next step; and no step of a request or a task changes the      *)
(* time left until the next renewal.                                       *)
C9_ServerRunsBesideLoop ==
    loopPc \in {"sleeping", "subscribing"} =>
        /\ \A challenge \in Challenges : ENABLED websub_get(challenge)
        /\ \A r \in 1..MaxPosts :
               (posts[r].pc = "idle" /\ \A q \in 1..(r - 1) : posts[q].pc # "idle")
               => \A raw \in Bodies : \A sig \in SigChoices(raw) :
                      ENABLED websub_post_arrive(r, raw, sig)
        /\ \A r \in PostIds :
               /\ posts[r].pc = "reading" => ENABLED websub_post(r)
               /\ tasks[r].pc = "scheduled" => ENABLED announce_video(r, TRUE)

C9_LoopRunsBesideServer ==
    (\E r \in PostIds : posts[r].pc = "reading"
                        \/ tasks[r].pc \in {"scheduled", "fetching", "sending"}) =>
        /\ (loopPc = "sleeping" /\ sleepLeft > 0) => ENABLED Tick
        /\ (loopPc = "sleeping" /\ sleepLeft = 0) => ENABLED resubscribe_loop_wake
        /\ loopPc = "subscribing" =>
               \A outcome \in HubOutcomes : ENABLED resubscribe_loop_done(outcome)

C9_TrafficLeavesTimer ==
    (posts' # posts \/ tasks' # tasks \/ lastGet' # lastGet
       \/ seen_video_ids' # seen_video_ids \/ announcements' # announcements)
    => UNCHANGED <<sleepLeft, loopPc, lastReg>>

C9_NeitherBlocksTheOther ==
    /\ [](C9_ServerRunsBesideLoop /\ C9_LoopRunsBesideServer)
    /\ [][C9_TrafficLeavesTimer]_vars

\* a POST is being read while the loop waits for the hub's response
C9_Witness ==
    /\ loopPc = "subscribing"
    /\ \E r \in PostIds : posts[r].pc = "reading"

-----------------------------------------------------------------------------
(* _verify_signature on its own: one POST whose X-Hub-Signature is drawn   *)
(* from headers built around the digest of its body                        *)

UpperHex(c) ==
    CASE c = "a" -> "A" [] c = "b" -> "B" [] c = "c" -> "C"
      [] c = "d" -> "D" [] c = "e" -> "E" [] c = "f" -> "F"
      [] OTHER -> c

HeaderPrefixes ==
    {Sha1Prefix,
     <<"s", "h", "a", "2", "5", "6", "=">>,
     <<"S", "H", "A", "1", "=">>,
     <<"s", "h", "a", "1">>,
     <<"s", "h", "a", "1", ":">>,
     <<" ">> \o Sha1Prefix,
     <<>>}

HeaderPads == {<<>>, <<" ">>, <<"\t">>, <<" ", "\t">>}

DigestTexts(d) ==
    {d,
     <<"z", "z">>,
     <<d[1]>>,
     d \o <<"0">>,
     <<d[1], " ", d[2]>>,
     <<UpperHex(d[1]), UpperHex(d[2])>>,
     <<"=">> \o d,
     <<"é">>,
     <<>>}

HeaderSamples(raw) ==
    {prefix \o left \o text \o right :
        prefix \in HeaderPrefixes, left \in HeaderPads,
        text \in DigestTexts(hexdigest("s3cret", raw)), right \in HeaderPads}

VerifyNext ==
    \/ start_web_server
    \/ \E raw \in Bodies : \E sig \in HeaderSamples(raw) :
           websub_post_arrive(1, raw, sig)
    \/ websub_post(1)

VerifySpec == Init /\ [][VerifyNext]_vars

\* header is "sha1=", whitespace, digest, whitespace and nothing else
IsPaddedSignature(header, digest) ==
    \E a, b \in 0..Len(header) :
        /\ Len(header) = Len(Sha1Prefix) + a + Len(digest) + b
        /\ SubSeq(header, 1, Len(Sha1Prefix)) = Sha1Prefix
        /\ \A k \in 1..a : header[Len(Sha1Prefix) + k] \in Whitespace
        /\ SubSeq(header, Len(Sha1Prefix) + a + 1,
                  Len(Sha1Prefix) + a + Len(digest)) = digest
        /\ \A k \in 1..b : header[Len(Sha1Prefix) + a + Len(digest) + k] \in Whitespace

-----------------------------------------------------------------------------
(* C10, as claimed: for a non-empty secret, _verify_signature succeeds if  *)
(* and only if the header is exactly "sha1=" followed by the hex digest of *)
(* the body.                                                               *)
C10_ExactHeaderOnly ==
    \A r \in PostIds :
        (posts[r].pc # "idle" /\ WEBSUB_SECRET # "") =>
            (_verify_signature(posts[r].raw, posts[r].sig) = "True"
             <=> posts[r].sig = Sha1Prefix \o hexdigest(WEBSUB_SECRET, posts[r].raw))

(* C10, amended: for a non-empty secret, _verify_signature succeeds if and *)
(* only if the header is "sha1=" followed by the hex digest of the body    *)
(* with any whitespace before and after the digest; the handler answers    *)
(* 403 exactly when it returns False.                                      *)
C10_DigestUpToWhitespace ==
    \A r \in PostIds :
        (posts[r].pc # "idle" /\ WEBSUB_SECRET # "") =>
            /\ _verify_signature(posts[r].raw, posts[r].sig) = "True"
               <=> IsPaddedSignature(posts[r].sig,
                                     hexdigest(WEBSUB_SECRET, posts[r].raw))
            /\ Handled(r) =>
                   (posts[r].status = 403
                    <=> _verify_signature(posts[r].raw, posts[r].sig) = "False")

\* a header with whitespace around the right digest was accepted
C10_Witness ==
    \E r \in PostIds :
        /\ WEBSUB_SECRET # ""
        /\ posts[r].pc = "responded"
        /\ posts[r].status = 204
        /\ posts[r].sig # Sha1Prefix \o hexdigest(WEBSUB_SECRET, posts[r].raw)
        /\ Len(posts[r].sig) > Len(Sha1Prefix) + 2

-----------------------------------------------------------------------------
(* C11: with an empty secret, _verify_signature succeeds for every body    *)
(* and every header, missing and malformed ones included, and no POST is   *)
(* answered 403.                                                           *)
C11_UnsecuredModeAcceptsAll ==
    \A r \in PostIds :
        (posts[r].pc # "idle" /\ WEBSUB_SECRET = "") =>
            /\ _verify_signature(posts[r].raw, posts[r].sig) = "True"
            /\ posts[r].status # 403
            /\ posts[r].pc # "verify_raised"

\* without a secret, POSTs with no header, with a wrong prefix and with a
\* digest that is not ASCII would each be let through; one was handled
C11_Witness ==
    \E r \in PostIds :
        /\ WEBSUB_SECRET = ""
        /\ posts[r].pc = "responded"
        /\ posts[r].status = 204
        /\ \/ posts[r].sig = <<>>
           \/ ~startswith(posts[r].sig, Sha1Prefix)
           \/ \E k \in 1..Len(posts[r].sig) : posts[r].sig[k] \in NonAscii

-----------------------------------------------------------------------------
(* parse_atom_for_video on its own: one POST, signed by the hub, whose     *)
(* body is drawn from every shape of document, and its task                *)

ParseNext ==
    \/ start_web_server
    \/ \E raw \in Bodies \cup ShapedBodies :
           websub_post_arrive(1, raw, SignedHeader("s3cret", raw))
    \/ websub_post(1)
    \/ \E cached \in BOOLEAN : announce_video(1, cached)
    \/ \E ok \in BOOLEAN : announce_video_fetched(1, ok)
    \/ \E ok \in BOOLEAN : announce_video_sent(1, ok)

ParseSpec == Init /\ [][ParseNext]_vars

\* the POSTs that have arrived
Arrived == {r \in PostIds : posts[r].pc # "idle"}

-----------------------------------------------------------------------------
(* C12: every entry parse_atom_for_video returns has a non-empty title,    *)
(* which is "(no title)" when the entry has no title element or one with   *)
(* no text.                                                                *)
C12_TitleNeverEmpty ==
    \A r \in Arrived :
        LET doc == DocOf(posts[r].raw)
            parsed == parse_atom_for_video(posts[r].raw)
        IN  parsed.kind = "entry" =>
                /\ ~Falsy(parsed.title)
                /\ doc.title \in {NoEl, None} => parsed.title = "(no title)"

(* C13 as stated: parse_atom_for_video returns None exactly for the        *)
(* well-formed feeds with no entry or whose first entry has no content-id  *)
(* element, and for every other well-formed feed an entry with the first   *)
(* entry's content id.                                                     *)
C13_NoneOnlyWithoutIdElement ==
    \A r \in Arrived :
        LET doc == DocOf(posts[r].raw)
            parsed == parse_atom_for_video(posts[r].raw)
        IN  doc.wf =>
                IF ~doc.entry \/ doc.videoId = NoEl
                THEN parsed.kind = "None"
                ELSE parsed.kind = "entry" /\ parsed.video_id = doc.videoId

(* C13: parse_atom_for_video returns None for every well-formed feed with  *)
(* no entry and for every feed whose first entry has no content-id element *)
(* or an empty one; for every other well-formed feed it returns an entry   *)
(* with the first entry's content id.  A verified POST whose parse result  *)
(* is None is answered 204 and schedules no task.                          *)
C13_NoneWithoutId ==
    \A r \in Arrived :
        LET doc == DocOf(posts[r].raw)
            parsed == parse_atom_for_video(posts[r].raw)
        IN  /\ doc.wf =>
                IF ~doc.entry \/ doc.videoId \in {NoEl, None, ""}
                THEN parsed.kind = "None"
                ELSE parsed.kind = "entry" /\ parsed.video_id = doc.videoId
            /\ (/\ posts[r].pc = "responded"
                /\ _verify_signature(posts[r].raw, posts[r].sig) = "True"
                /\ parsed.kind = "None") =>
                   /\ posts[r].status = 204
                   /\ tasks[r].pc = "none"
                   /\ seen_video_ids = {}
                   /\ announcements = <<>>

C13_Witness ==
    \E r \in Arrived :
        /\ DocOf(posts[r].raw).entry
        /\ DocOf(posts[r].raw).videoId = None
        /\ posts[r].pc = "responded"
        /\ posts[r].status = 204
        /\ tasks[r].pc = "none"

(* C14 as stated: the link of a returned entry is the first link element's *)
(* href whenever that attribute is present, and the watch URL of the id    *)
(* otherwise.                                                              *)
C14_HrefWheneverPresent ==
    \A r \in Arrived :
        LET doc == DocOf(posts[r].raw)
            parsed == parse_atom_for_video(posts[r].raw)
        IN  parsed.kind = "entry" =>
                /\ parsed.link # None
                /\ parsed.link = IF doc.link \notin {NoEl, NoAttr} THEN doc.link
                                 ELSE "https://www.youtube.com/watch?v=" \o parsed.video_id

(* C14: the link of a returned entry is the first link element's href when *)
(* that attribute is present and non-empty, and otherwise exactly the      *)
(* watch URL "https://www.youtube.com/watch?v=" followed by the id; it is  *)
(* never absent or empty, and it is the link the task announces.           *)
C14_LinkNeverAbsent ==
    \A r \in Arrived :
        LET doc == DocOf(posts[r].raw)
            parsed == parse_atom_for_video(posts[r].raw)
        IN  parsed.kind = "entry" =>
                /\ parsed.link \notin {None, ""}
                /\ parsed.link = IF doc.link \notin {NoEl, NoAttr, ""} THEN doc.link
                                 ELSE "https://www.youtube.com/watch?v=" \o parsed.video_id
                /\ tasks[r].pc # "none" => tasks[r].link = parsed.link

C14_Witness ==
    \E r \in Arrived :
        /\ DocOf(posts[r].raw).link = ""
        /\ tasks[r].pc = "sent"
        /\ tasks[r].link = "https://www.youtube.com/watch?v=v1"
        /\ Len(announcements) = 1

-----------------------------------------------------------------------------
(* C15 as stated: every GET is answered 200 with the hub.challenge value   *)
(* verbatim whenever the query has that parameter and "ok" otherwise.      *)
C15_EchoWheneverPresent ==
    lastGet.status # 0 =>
        /\ lastGet.status = 200
        /\ lastGet.text = IF lastGet.challenge # None THEN lastGet.challenge ELSE "ok"

C15_GetAnswered ==
    lastGet.status # 0 =>
        /\ lastGet.status = 200
        /\ lastGet.text = IF lastGet.challenge \notin {None, ""}
                          THEN lastGet.challenge ELSE "ok"

C15_GetChangesNothingElse ==
    lastGet' # lastGet =>
        /\ seen_video_ids' = seen_video_ids
        /\ tasks' = tasks
        /\ posts' = posts
        /\ announcements' = announcements

(* C15: every GET on the callback path is answered 200; the body is the    *)
(* hub.challenge value verbatim when that parameter is present and not     *)
(* empty, and "ok" otherwise; a GET never changes seen_video_ids and never *)
(* schedules a task.                                                       *)
C15_GetEchoesChallenge ==
    /\ []C15_GetAnswered
    /\ [][C15_GetChangesNothingElse]_vars

\* a GET with an empty hub.challenge was answered while a task was running
C15_Witness ==
    /\ lastGet.status = 200
    /\ lastGet.challenge = ""
    /\ lastGet.text = "ok"
    /\ \E r \in PostIds : tasks[r].pc = "fetching"

-----------------------------------------------------------------------------
\* every recorded id is the parsed id of a POST that passed verification,
\* was answered 204 and whose task has run its check-and-record
C16_OnlyAnnouncedIds ==
    \A x \in seen_video_ids :
        \E r \in Passed(x) :
            /\ posts[r].pc = "responded"
            /\ posts[r].status = 204
            /\ _verify_signature(posts[r].raw, posts[r].sig) = "True"
            /\ parse_atom_for_video(posts[r].raw).kind = "entry"
            /\ parse_atom_for_video(posts[r].raw).video_id = x

\* the set never loses an id, and gains one only in the first step of a
\* task; steps of handlers, GETs and the subscription leave it alone
C16_GrowsOnlyInTask ==
    /\ seen_video_ids \subseteq seen_video_ids'
    /\ seen_video_ids' # seen_video_ids =>
           /\ \E r \in PostIds :
                  /\ tasks[r].pc = "scheduled"
                  /\ tasks'[r].pc = "fetching" \/ tasks'[r].pc = "sending"
                  /\ seen_video_ids' = seen_video_ids \cup {tasks[r].video_id}
           /\ UNCHANGED <<posts, lastGet, hubPosted, lastReg, loopPc, readyPc>>
    /\ (posts' # posts \/ lastGet' # lastGet \/ hubPosted' # hubPosted
          \/ lastReg' # lastReg \/ loopPc' # loopPc \/ sleepLeft' # sleepLeft)
       => seen_video_ids' = seen_video_ids

(* C16: seen_video_ids only grows, and holds only ids of entries from      *)
(* POSTs that passed verification and parsing and whose task has run.      *)
(* POSTs answered 403 or 500 or carrying no entry, GETs and subscription   *)
(* renewals leave it unchanged.                                            *)
C16_SeenOnlyGrows ==
    /\ []C16_OnlyAnnouncedIds
    /\ [][C16_GrowsOnlyInTask]_vars

\* an id stays recorded although its send failed, after a GET and a renewal
C16_Witness ==
    /\ seen_video_ids = {"v1"}
    /\ \E r \in PostIds : tasks[r].pc = "failed" /\ tasks[r].video_id = "v1"
    /\ lastGet.status = 200
    /\ loopPc = "sleeping"
    /\ Cardinality(hubPosted) >= 1
    /\ lastReg = "failed"

-----------------------------------------------------------------------------
\* every attempt's end, the initial one's that starts the loop included,
\* is followed by a sleep of the whole interval, whatever the attempt's
\* fate; the sleep only runs down, by the time that passes; and a renewal
\* request goes out only from a sleep that has run down to nothing
C17_IntervalStep ==
    /\ (loopPc # "sleeping" /\ loopPc' = "sleeping") =>
           /\ sleepLeft' = RESUBSCRIBE_SECONDS
           /\ lastReg' \in {"ok", "failed"}
    /\ (loopPc = "sleeping" /\ loopPc' = "sleeping") =>
           /\ sleepLeft' <= sleepLeft
           /\ sleepLeft' >= sleepLeft - TickSeconds
           /\ lastReg' = lastReg
    /\ (loopPc = "sleeping" /\ loopPc' # "sleeping") =>
           /\ sleepLeft = 0
           /\ loopPc' = "subscribing"
           /\ lastReg' = "inflight"
           /\ SubscribeData \in hubPosted'
    /\ (loopPc # "none" /\ lastReg' = "inflight" /\ lastReg # "inflight") =>
           loopPc = "sleeping" /\ sleepLeft = 0

-----------------------------------------------------------------------------
\* the value request data gives for key, None when it has no such field
Field(data, key) ==
    IF \E p \in data : p[1] = key
    THEN (CHOOSE p \in data : p[1] = key)[2]
    ELSE None

(* C18: every registration request, initial or renewal, names mode         *)
(* "subscribe", the same topic, the same callback and verify "async", and  *)
(* carries hub.secret exactly when a secret is configured: the hub is      *)
(* asked to sign exactly when websub_post rejects unsigned POSTs.          *)
C18_SameRegistrationData ==
    /\ Cardinality(hubPosted) <= 1
    /\ \A data \in hubPosted :
        /\ \A p \in data : \A q \in data : p[1] = q[1] => p = q
        /\ {p[1] : p \in data} \ {"hub.secret"}
               = {"hub.mode", "hub.topic", "hub.callback", "hub.verify"}
        /\ Field(data, "hub.mode") = "subscribe"
        /\ Field(data, "hub.topic") = "TOPIC_URL"
        /\ Field(data, "hub.callback") = "CALLBACK_URL"
        /\ Field(data, "hub.verify") = "async"
        /\ Field(data, "hub.secret") = IF WEBSUB_SECRET # "" THEN WEBSUB_SECRET ELSE None
        /\ \A raw \in Bodies :
               (Field(data, "hub.secret") # None)
                   <=> (_verify_signature(raw, <<>>) = "False")
        /\ \A raw \in Bodies :
               Field(data, "hub.secret") # None =>
                   _verify_signature(raw, SignedHeader(Field(data, "hub.secret"), raw)) = "True"

\* the initial request and a renewal have gone out with the secret
C18_Witness ==
    /\ WEBSUB_SECRET = "s3cret"
    /\ loopPc = "subscribing"
    /\ lastReg = "inflight"
    /\ \E data \in hubPosted : Field(data, "hub.secret") = "s3cret"

-----------------------------------------------------------------------------
(* The POST path with a channel that is found and accepts every send, and  *)
(* an event loop that runs every handler and task that can run             *)

AcceptingNext ==
    \/ start_web_server
    \/ \E r \in 1..MaxDispatchPosts, raw \in Bodies :
           \E sig \in {SignedHeader("s3cret", raw), ForgedHeader} :
               websub_post_arrive(r, raw, sig)
    \/ \E r \in PostIds : websub_post_read_raises(r)
    \/ \E r \in PostIds : websub_post(r)
    \/ \E r \in PostIds, cached \in BOOLEAN : announce_video(r, cached)
    \/ \E r \in PostIds : announce_video_fetched(r, TRUE)
    \/ \E r \in PostIds : announce_video_sent(r, TRUE)

TaskFairness ==
    \A r \in PostIds :
        /\ WF_vars(\E cached \in BOOLEAN : announce_video(r, cached))
        /\ WF_vars(announce_video_fetched(r, TRUE))
        /\ WF_vars(announce_video_sent(r, TRUE))

AcceptingSpec == Init /\ [][AcceptingNext]_vars /\ TaskFairness

\* POST r passed verification with an entry for x, and x is unclaimed
AcceptedNew(r, x) ==
    /\ posts[r].pc = "responded"
    /\ posts[r].status = 204
    /\ tasks[r].pc = "scheduled"
    /\ tasks[r].video_id = x
    /\ x \notin seen_video_ids

\* the text announcing the entry of POST r
TextOf(r) ==
    "[loudspeaker] **New upload:** " \o parse_atom_for_video(posts[r].raw).title
        \o "\n" \o parse_atom_for_video(posts[r].raw).link

(* C19 as stated: every accepted POST with an entry for an unclaimed id    *)
(* eventually results in exactly one announcement carrying that entry's    *)
(* own title and link.                                                     *)
C19_OwnEntryAnnounced ==
    \A r \in PostIds : \A x \in VideoIds :
        AcceptedNew(r, x) ~>
            /\ Cardinality(SentFor(x)) = 1
            /\ \E i \in SentFor(x) : announcements[i].text = TextOf(r)

(* C19: with tasks scheduled fairly and a channel that accepts the send,   *)
(* every POST that passes verification with an entry for an unclaimed id   *)
(* eventually results in exactly one announcement for that id, carrying    *)
(* the title and link of the entry whose task claimed the id: the POST's   *)
(* own entry unless another POST for the same id was accepted before its   *)
(* task ran.  No accepted new entry stays undispatched forever.            *)
C19_ClaimedEntryAnnounced ==
    /\ \A r \in PostIds : \A x \in VideoIds :
           AcceptedNew(r, x) ~>
               /\ Cardinality(SentFor(x)) = 1
               /\ tasks[r].pc \in {"sent", "returned"}
               /\ \E q \in Passed(x) :
                      /\ tasks[q].pc = "sent"
                      /\ \E i \in SentFor(x) : announcements[i].text = TextOf(q)
                      /\ TasksFor(x) = {r} => q = r
    /\ [](\A x \in VideoIds : Cardinality(SentFor(x)) <= 1)

\* two POSTs for one id with different titles were accepted; one was
\* announced and the other's task returned
C19_Witness ==
    \E r \in PostIds : \E q \in PostIds :
        /\ tasks[r].pc = "sent"
        /\ tasks[q].pc = "returned"
        /\ tasks[q].video_id = tasks[r].video_id
        /\ tasks[q].title # tasks[r].title
        /\ Len(announcements) = 1
        /\ announcements[1].text = TextOf(r)

-----------------------------------------------------------------------------
\* whenever a request has gone to the hub the endpoint is listening, and
\* while the initial registration is in flight a verification GET can be
\* answered, with 200 and the challenge echoed
C20_ListeningWhileRegistering ==
    /\ (lastReg # "none" \/ hubPosted # {} \/ readyPc \in {"subscribing", "done", "raised"})
           => listening
    /\ (readyPc = "subscribing" /\ lastReg = "inflight") =>
           ENABLED (/\ websub_get("xyz789")
                    /\ lastGet'.status = 200
                    /\ lastGet'.text = "xyz789")

\* a request goes to the hub only from a listening endpoint, and a GET
\* answered while the initial registration is in flight echoes its challenge
C20_RegistrationStep ==
    /\ (lastReg' = "inflight" /\ lastReg # "inflight") => listening /\ listening'
    /\ hubPosted' # hubPosted => listening /\ listening'
    /\ (readyPc = "subscribing" /\ lastGet' # lastGet /\ lastGet'.challenge = "xyz789") =>
           /\ lastGet'.status = 200
           /\ lastGet'.text = "xyz789"
           /\ readyPc' = "subscribing"

(* C20: at startup the endpoint is serving before the first registration   *)
(* request is sent, so a verification GET arriving while the initial       *)
(* registration is in flight is answered 200 with the challenge echoed; no *)
(* registration request is ever sent while the endpoint is not listening.  *)
C20_ServingBeforeRegistering ==
    /\ []C20_ListeningWhileRegistering
    /\ [][C20_RegistrationStep]_vars

\* the initial registration is in flight and the hub's verification GET
\* has been answered with its challenge
C20_Witness ==
    /\ readyPc = "subscribing"
    /\ lastReg = "inflight"
    /\ listening
    /\ lastGet = [challenge |-> "xyz789", status |-> 200, text |-> "xyz789"]

=============================================================================
